---------------------------- MODULE Spec2Model ----------------------------
(***************************************************************************)
(* A model of stamp-cli's render_template (src/src/main.rs): manifest      *)
(* validation, the early conflict pre-check, the prompts, planning (path   *)
(* segment rendering and marker stripping), conflict resolution and        *)
(* execution, over an explicit file system; of main's resolution of the    *)
(* conflict strategy from the command line; and of the registry of         *)
(* template sources (register_source, remove_source).                      *)
(*                                                                         *)
(* Text (a file name, a path component, a file's content, an answer) is a  *)
(* sequence of tokens; a token is an indivisible piece of text.  A path is *)
(* a sequence of components below the file system root, each component a   *)
(* text.  The tokens "/" and ".." stand for the path separator and the     *)
(* parent-directory component; the tokens of VarTokens are the Tera        *)
(* interpolations {{ id }}.                                                *)
(***************************************************************************)
EXTENDS Integers, Sequences, FiniteSets, TLC

VARIABLES
    fs,                 \* the file system: path -> [kind, content]
    args,               \* render_template's arguments and the parsed stamp.toml
    pc,                 \* position inside render_template
    run,                \* number of the current invocation
    validation_errors,  \* main.rs:224
    early_conflicts,    \* main.rs:288
    context,            \* main.rs:331, tera::Context
    actions,            \* main.rs:425
    conflicts,          \* main.rs:485
    next_action,        \* index of the action the executor loop is at
    err,                \* which bail!/? ended the run ("none" while running)
    fs_start,           \* history: fs when the current invocation started
    planned,            \* history: the action list before conflict resolution
    prev_run,           \* history: how the previous invocation went
    cli,                \* the command line: the subcommand and its flags
    registry,           \* the sources stored in template_registry.json
    last_op             \* history: the last register or remove and its outcome

vars == <<fs, args, pc, run, validation_errors, early_conflicts, context,
          actions, conflicts, next_action, err, fs_start, planned, prev_run,
          cli, registry, last_op>>

----------------------------------------------------------------------------
(* Bounds of the model *)

MaxFiles == 2       \* files of the template tree besides stamp.toml
MaxPre == 2         \* files present under the destination before the first run
MaxQuestions == 2   \* questions of a manifest
MaxRuns == 2        \* consecutive invocations with the same arguments

----------------------------------------------------------------------------
(* Text *)

VarTokens == {"{{project}}", "{{name}}", "{{missing}}"}

VarOf(tok) ==
    CASE tok = "{{project}}" -> "project"
      [] tok = "{{name}}" -> "name"
      [] tok = "{{missing}}" -> "missing"

\* tokens whose text begins with "."
DotTokens == {".tera", ".json", ".md", ".txt", ".."}

\* str.contains("{{")
ContainsBraces(text) == \E i \in 1..Len(text) : text[i] \in VarTokens

\* file_name.ends_with(".tera") || file_name.contains(".tera.")
IsTera(file_name) ==
    \/ Len(file_name) > 0 /\ file_name[Len(file_name)] = ".tera"
    \/ \E i \in 1..(Len(file_name) - 1) :
          file_name[i] = ".tera" /\ file_name[i + 1] \in DotTokens

\* str.replace(".tera", ""): every occurrence goes
ReplaceTera(file_name) == SelectSeq(file_name, LAMBDA t : t # ".tera")

RECURSIVE Concat(_)
Concat(texts) ==
    IF texts = <<>> THEN <<>> ELSE Head(texts) \o Concat(Tail(texts))

\* tera.render_str(text, ctx) with autoescape off: each {{ id }} is replaced
\* by the value bound to id; an unbound id is an error
RenderOk(text, ctx) ==
    \A i \in 1..Len(text) : text[i] \in VarTokens => VarOf(text[i]) \in DOMAIN ctx

RenderStr(text, ctx) ==
    Concat([i \in 1..Len(text) |->
              IF text[i] \in VarTokens THEN ctx[VarOf(text[i])] ELSE <<text[i]>>])

----------------------------------------------------------------------------
(* Paths (std::path) *)

\* Path::components of a string: split at "/", empty pieces dropped
RECURSIVE Components(_)
Components(text) ==
    IF text = <<>> THEN <<>>
    ELSE IF Head(text) = "/" THEN Components(Tail(text))
    ELSE LET rest == Components(Tail(text))
         IN  IF Len(text) > 1 /\ text[2] # "/"
             THEN <<(<<Head(text)>> \o Head(rest))>> \o Tail(rest)
             ELSE <<(<<Head(text)>>)>> \o rest

IsAbsolute(text) == Len(text) > 0 /\ text[1] = "/"

\* PathBuf::join: an absolute argument replaces the path
Join(path, text) ==
    IF IsAbsolute(text) THEN Components(text) ELSE path \o Components(text)

ParentDir == <<"..">>

\* Path::file_name().unwrap_or_default(): the last component unless it is ".."
HasFileName(path) == Len(path) > 0 /\ path[Len(path)] # ParentDir
FileName(path) == IF HasFileName(path) THEN path[Len(path)] ELSE <<>>

\* Path::parent: the path without its last component
Parent(path) == SubSeq(path, 1, Len(path) - 1)

\* PathBuf::set_file_name
SetFileName(path, name) ==
    Join(IF HasFileName(path) THEN Parent(path) ELSE path, name)

\* Path::strip_prefix
StripPrefix(path, base) == SubSeq(path, Len(base) + 1, Len(path))

StartsWith(path, base) ==
    Len(base) <= Len(path) /\ SubSeq(path, 1, Len(base)) = base

\* the path with its ".." components resolved (the root is its own parent)
RECURSIVE Normalize(_)
Normalize(path) ==
    IF path = <<>> THEN <<>>
    ELSE LET before == Normalize(Parent(path))
             last == path[Len(path)]
         IN  IF last = ParentDir
             THEN (IF before = <<>> THEN <<>> ELSE Parent(before))
             ELSE Append(before, last)

----------------------------------------------------------------------------
(* The file system (std::fs) *)

File(content) == [kind |-> "file", content |-> content]
Dir == [kind |-> "dir", content |-> <<>>]

IsDir(f, path) == path = <<>> \/ (path \in DOMAIN f /\ f[path].kind = "dir")
IsFile(f, path) == path \in DOMAIN f /\ f[path].kind = "file"

\* every ".." of the path is reached through an existing directory
Traversable(f, path) ==
    \A i \in 1..Len(path) :
        path[i] = ParentDir => IsDir(f, Normalize(SubSeq(path, 1, i - 1)))

\* Path::exists
Exists(f, path) ==
    Traversable(f, path) /\ (Normalize(path) = <<>> \/ Normalize(path) \in DOMAIN f)

\* fs::create_dir_all finds or makes each directory on the way to the path,
\* from the root down, and stops at the first one that is a file
DirChain(path, n) == {Normalize(SubSeq(path, 1, i)) : i \in 1..n} \ {<<>>}

BlockedAt(f, path) ==
    {i \in 1..Len(path) : IsFile(f, Normalize(SubSeq(path, 1, i)))}

CreateDirAllOk(f, path) == BlockedAt(f, path) = {}

CreateDirAll(f, path) ==
    LET blocked == BlockedAt(f, path)
        reach == IF blocked = {} THEN Len(path)
                 ELSE (CHOOSE i \in blocked : \A j \in blocked : i <= j) - 1
    IN  [d \in DirChain(path, reach) \ DOMAIN f |-> Dir] @@ f

\* fs::write and the writing half of fs::copy: the parent must be a directory
\* and the target must not be one
WriteOk(f, path) ==
    /\ Traversable(f, path)
    /\ IsDir(f, Normalize(Parent(path)))
    /\ ~IsDir(f, Normalize(path))

\* a write that leaves a file that is there as it is
WriteKeepFirst(f, path, content) ==
    IF IsFile(f, Normalize(path)) THEN f
    ELSE (Normalize(path) :> File(content)) @@ f

\* a write that appends to what the file holds
WriteAppend(f, path, content) ==
    (Normalize(path) :>
        File((IF IsFile(f, Normalize(path)) THEN f[Normalize(path)].content ELSE <<>>)
             \o content)) @@ f

\* fs::write and fs::copy: the file is created or truncated
Write(f, path, content) == (Normalize(path) :> File(content)) @@ f

----------------------------------------------------------------------------
(* stamp.toml: TemplateConfig, Question (main.rs:61-104) and its validation *)

None == [some |-> FALSE, items |-> <<>>]
Some(items) == [some |-> TRUE, items |-> items]

QuestionTypes == {"String", "Select", "MultiSelect", "Bool"}

\* a validation that reports one message per question at most
QuestionErrorsFirstOnly(question) ==
    IF question.options.some /\ question.choices.some
    THEN <<[id |-> question.id, error |-> "cannot have both"]>>
    ELSE IF question.kind = "Select" /\ ~question.options.some
    THEN <<[id |-> question.id, error |-> "select must have options"]>>
    ELSE IF question.kind = "Select" /\ question.choices.some
    THEN <<[id |-> question.id, error |-> "select cannot have choices"]>>
    ELSE IF question.kind = "MultiSelect" /\ ~question.choices.some
    THEN <<[id |-> question.id, error |-> "multi-select must have choices"]>>
    ELSE IF question.kind = "MultiSelect" /\ question.options.some
    THEN <<[id |-> question.id, error |-> "multi-select cannot have options"]>>
    ELSE IF question.kind \in {"String", "Bool"} /\ question.options.some
    THEN <<[id |-> question.id, error |-> "cannot have options"]>>
    ELSE IF question.kind \in {"String", "Bool"} /\ question.choices.some
    THEN <<[id |-> question.id, error |-> "cannot have choices"]>>
    ELSE <<>>

\* the validation messages pushed for one question, in the order of the code
QuestionErrors(question) ==
    (IF question.options.some /\ question.choices.some
     THEN <<[id |-> question.id, error |-> "cannot have both"]>> ELSE <<>>)
    \o
    (CASE question.kind = "Select" ->
            (IF ~question.options.some
             THEN <<[id |-> question.id, error |-> "select must have options"]>>
             ELSE <<>>)
            \o
            (IF question.choices.some
             THEN <<[id |-> question.id, error |-> "select cannot have choices"]>>
             ELSE <<>>)
       [] question.kind = "MultiSelect" ->
            (IF ~question.choices.some
             THEN <<[id |-> question.id, error |-> "multi-select must have choices"]>>
             ELSE <<>>)
            \o
            (IF question.options.some
             THEN <<[id |-> question.id, error |-> "multi-select cannot have options"]>>
             ELSE <<>>)
       [] OTHER ->
            (IF question.options.some
             THEN <<[id |-> question.id, error |-> "cannot have options"]>>
             ELSE <<>>)
            \o
            (IF question.choices.some
             THEN <<[id |-> question.id, error |-> "cannot have choices"]>>
             ELSE <<>>))

\* the loop of main.rs:225-277: no question stops it
Validate(questions) ==
    Concat([i \in 1..Len(questions) |-> QuestionErrors(questions[i])])

----------------------------------------------------------------------------
(* The prompts (main.rs:331-413) *)

\* what the user may type for a String question
StringAnswers(id) ==
    IF id = "project"
    THEN {<<"demo">>, <<"..">>, <<"x", "/", "..">>, <<"/", "etc">>}
    ELSE {<<"Ada">>}

BoolText(b) == IF b THEN <<"true">> ELSE <<"false">>

\* the text Tera interpolates for a list of ids
RECURSIVE ListText(_)
ListText(ids) ==
    IF ids = <<>> THEN <<>>
    ELSE <<Head(ids)>> \o (IF Len(ids) > 1 THEN <<", ">> ELSE <<>>) \o ListText(Tail(ids))

\* the context entries one answered question inserts
Inserted(question) ==
    CASE question.kind = "String" ->
            {(question.id :> v) : v \in StringAnswers(question.id)}
      [] question.kind = "Bool" ->
            {(question.id :> BoolText(b)) : b \in BOOLEAN}
      [] question.kind = "Select" ->
            IF question.options.some
            THEN {(question.id :> question.options.items[i]) :
                     i \in 1..Len(question.options.items)}
            ELSE {<<>>}
      [] question.kind = "MultiSelect" ->
            IF question.choices.some
            THEN LET choices == question.choices.items
                 IN  {(question.id :>
                          (<<"[">> \o ListText(SelectSeq(choices, LAMBDA c : c \in sel))
                             \o <<"]">>))
                      @@ [c \in {choices[i] : i \in 1..Len(choices)} |->
                              BoolText(c \in sel)] :
                      sel \in SUBSET {choices[i] : i \in 1..Len(choices)}}
            ELSE {<<>>}

\* context.insert in question order: a later insert replaces an earlier one
RECURSIVE Contexts(_)
Contexts(questions) ==
    IF questions = <<>> THEN {<<>>}
    ELSE {ins @@ ctx : ins \in Inserted(questions[Len(questions)]),
                       ctx \in Contexts(SubSeq(questions, 1, Len(questions) - 1))}

----------------------------------------------------------------------------
(* The walk of the template tree (walkdir::WalkDir, main.rs:289 and 427) *)

Children(f, dir) ==
    {p \in DOMAIN f : Len(p) = Len(dir) + 1 /\ StartsWith(p, dir)}

\* a listing whose order changes from one invocation to the next
RECURSIVE ReadDirUnstable(_)
ReadDirUnstable(entries) ==
    IF entries = {} THEN <<>>
    ELSE LET e == CHOOSE x \in entries : TRUE
             rest == ReadDirUnstable(entries \ {e})
         IN  IF run = 1 THEN <<e>> \o rest ELSE rest \o <<e>>

\* the order in which a directory lists its entries: fixed by the entries
RECURSIVE ReadDir(_)
ReadDir(entries) ==
    IF entries = {} THEN <<>>
    ELSE LET e == CHOOSE x \in entries : TRUE
         IN  <<e>> \o ReadDir(entries \ {e})

\* the entries of the walk for which path.is_file() holds, depth first
RECURSIVE WalkFiles(_, _)
WalkFiles(f, path) ==
    IF IsFile(f, path) THEN <<path>>
    ELSE LET entries == ReadDir(Children(f, path))
         IN  Concat([i \in 1..Len(entries) |-> WalkFiles(f, entries[i])])

\* file_name == "stamp.toml"
IsManifestName(path) == FileName(path) = <<"stamp.toml">>

\* the files the two loops go on with after `continue`
TemplateFiles(f, template_path) ==
    SelectSeq(WalkFiles(f, template_path), LAMBDA p : ~IsManifestName(p))

----------------------------------------------------------------------------
(* The early conflict check (main.rs:287-329) *)

\* relative_str.contains("{{")
IsParametrized(relative) ==
    \E i \in 1..Len(relative) : ContainsBraces(relative[i])

\* main.rs:304-314
EarlyOutputPath(path, template_path, destination_path) ==
    LET relative == StripPrefix(path, template_path)
        output_path == destination_path \o relative
    IN  IF IsTera(FileName(path))
        THEN SetFileName(output_path, ReplaceTera(FileName(output_path)))
        ELSE output_path

EarlyConflicts(f, template_path, destination_path) ==
    LET files == SelectSeq(TemplateFiles(f, template_path),
                   LAMBDA p : ~IsParametrized(StripPrefix(p, template_path)))
        outputs == [i \in 1..Len(files) |->
                      EarlyOutputPath(files[i], template_path, destination_path)]
    IN  SelectSeq(outputs, LAMBDA o : Exists(f, o))

----------------------------------------------------------------------------
(* Planning (main.rs:425-481) *)

\* main.rs:442-449: every component of destination_path.join(relative) is
\* rendered and the results are joined from an empty path
ComponentsRenderOk(components, ctx) ==
    \A i \in 1..Len(components) : RenderOk(components[i], ctx)

RECURSIVE RenderComponents(_, _)
RenderComponents(components, ctx) ==
    IF components = <<>> THEN <<>>
    ELSE Join(RenderComponents(Parent(components), ctx),
              RenderStr(components[Len(components)], ctx))

OutputPathOriginal(path, template_path, destination_path) ==
    destination_path \o StripPrefix(path, template_path)

\* main.rs:459-479
FileAction(path, template_path, destination_path, ctx) ==
    LET output_path ==
            RenderComponents(OutputPathOriginal(path, template_path, destination_path), ctx)
        is_tera == IsTera(FileName(path))
    IN  [source |-> path,
         destination |-> IF is_tera
                         THEN SetFileName(output_path, ReplaceTera(FileName(output_path)))
                         ELSE output_path,
         is_tera |-> is_tera]

PlanOk(f, template_path, destination_path, ctx) ==
    LET files == TemplateFiles(f, template_path)
    IN  \A i \in 1..Len(files) :
            ComponentsRenderOk(
                OutputPathOriginal(files[i], template_path, destination_path), ctx)

Plan(f, template_path, destination_path, ctx) ==
    LET files == TemplateFiles(f, template_path)
    IN  [i \in 1..Len(files) |->
            FileAction(files[i], template_path, destination_path, ctx)]

----------------------------------------------------------------------------
(* Conflict resolution (main.rs:483-505) *)

\* a final check that, like the early one, leaves parametrized sources out
ConflictsOfLiteralSources(f, acts) ==
    LET hit == SelectSeq(acts, LAMBDA a :
                   Exists(f, a.destination) /\ ~IsParametrized(a.source))
    IN  [i \in 1..Len(hit) |-> hit[i].destination]

\* a final check that stops at the first conflict
ConflictsFirstOnly(f, acts) ==
    LET hit == SelectSeq(acts, LAMBDA a : Exists(f, a.destination))
    IN  IF hit = <<>> THEN <<>> ELSE <<hit[1].destination>>

\* main.rs:485-490
Conflicts(f, acts) ==
    LET hit == SelectSeq(acts, LAMBDA a : Exists(f, a.destination))
    IN  [i \in 1..Len(hit) |-> hit[i].destination]

\* main.rs:500
Retain(f, acts) == SelectSeq(acts, LAMBDA a : ~Exists(f, a.destination))

Resolved(f, acts, strategy) ==
    IF strategy = "Skip" THEN Retain(f, acts) ELSE acts

----------------------------------------------------------------------------
(* Execution of one action (main.rs:508-520) *)

\* the file system after fs::create_dir_all(parent), whether it succeeded or not
AfterDirs(f, action) == CreateDirAll(f, Parent(action.destination))

\* an executor that copies every source verbatim
ExecuteVerbatim(f, action, ctx) ==
    IF /\ CreateDirAllOk(f, Parent(action.destination))
       /\ IsFile(f, action.source)
       /\ WriteOk(AfterDirs(f, action), action.destination)
    THEN Write(AfterDirs(f, action), action.destination, f[action.source].content)
    ELSE AfterDirs(f, action)

ExecuteOk(f, action, ctx) ==
    /\ CreateDirAllOk(f, Parent(action.destination))
    /\ IsFile(f, action.source)
    /\ action.is_tera => RenderOk(f[action.source].content, ctx)
    /\ WriteOk(AfterDirs(f, action), action.destination)

Execute(f, action, ctx) ==
    IF ExecuteOk(f, action, ctx)
    THEN Write(AfterDirs(f, action), action.destination,
               IF action.is_tera
               THEN RenderStr(f[action.source].content, ctx)
               ELSE f[action.source].content)
    ELSE AfterDirs(f, action)

----------------------------------------------------------------------------
(* The inputs: template trees, manifests, destinations, strategies *)

TemplateRoot == <<(<<"T">>)>>

\* a destination beside the template, one inside it, one whose name holds
\* template delimiters
DestinationRoots ==
    {<<(<<"D">>)>>, <<(<<"T">>), (<<"out">>)>>, <<(<<"D", "{{name}}">>)>>}

Strategies == {"Fail", "Overwrite", "Skip"}

\* files a template tree may hold, by their path below the template root
CandidateFiles ==
    {[path |-> <<(<<"{{project}}">>), (<<"README", ".md", ".tera">>)>>,
      content |-> <<"Hello ", "{{name}}">>],
     [path |-> <<(<<"README", ".md">>)>>, content |-> <<"raw ", "{{name}}">>],
     [path |-> <<(<<"README", ".md", ".tera">>)>>, content |-> <<"Hi ", "{{name}}">>],
     [path |-> <<(<<"c", ".tera", ".json">>)>>, content |-> <<"n=", "{{name}}">>],
     [path |-> <<(<<"x", ".tera", "byte", ".tera">>)>>, content |-> <<"big">>],
     [path |-> <<(<<"sub">>), (<<"stamp.toml">>)>>, content |-> <<"[meta]">>],
     [path |-> <<(<<"bad", ".tera">>)>>, content |-> <<"{{missing}}">>]}

QuestionIds == <<"project", "name", "author">>

StringQuestion(id) ==
    [id |-> id, kind |-> "String", options |-> None, choices |-> None]

\* the manifests of the runs that vary the trees: a complete one, one that
\* asks no project, one whose select question lacks its options
Configs ==
    {<<StringQuestion("project"), StringQuestion("name")>>,
     <<StringQuestion("name")>>,
     <<StringQuestion("project"),
       [id |-> "name", kind |-> "Select", options |-> None, choices |-> None]>>}

\* the manifests of the runs that vary the questions
OptionChoices == {None, Some(<<(<<"demo">>), (<<"Ada">>)>>)}
ChoiceChoices == {None, Some(<<"docs", "ci">>)}

QuestionsAt(i) ==
    {[id |-> QuestionIds[i], kind |-> k, options |-> o, choices |-> c] :
        k \in QuestionTypes, o \in OptionChoices, c \in ChoiceChoices}

RECURSIVE ManifestsOfLength(_)
ManifestsOfLength(n) ==
    IF n = 0 THEN {<<>>}
    ELSE {Append(m, q) : m \in ManifestsOfLength(n - 1), q \in QuestionsAt(n)}

AllManifests == UNION {ManifestsOfLength(n) : n \in 0..MaxQuestions}

\* a file system holding the given files (absolute paths) and the
\* directories above them
Ancestors(path) == {SubSeq(path, 1, i) : i \in 1..(Len(path) - 1)}

MakeFs(files) ==
    LET paths == {file.path : file \in files}
        dirs == (UNION {Ancestors(q) : q \in paths}) \ paths
    IN  [q \in paths |-> File((CHOOSE file \in files : file.path = q).content)]
        @@ [d \in dirs |-> Dir]

TemplateTree(chosen) ==
    {[path |-> TemplateRoot \o <<(<<"stamp.toml">>)>>, content |-> <<"[questions]">>]}
    \cup {[path |-> TemplateRoot \o file.path, content |-> file.content] : file \in chosen}

\* paths a destination may already hold: those the tree maps to literally and
\* those it maps to under the answers demo and Ada
TypicalContext == ("project" :> <<"demo">>) @@ ("name" :> <<"Ada">>)

PreCandidates(chosen, destination_path) ==
    {Normalize(FileAction(TemplateRoot \o file.path, TemplateRoot,
                          destination_path, TypicalContext).destination) :
        file \in {c \in chosen : c.path[Len(c.path)] # <<"stamp.toml">>}}
    \cup
    {EarlyOutputPath(TemplateRoot \o file.path, TemplateRoot, destination_path) :
        file \in {c \in chosen : ~IsParametrized(c.path)
                                  /\ c.path[Len(c.path)] # <<"stamp.toml">>}}

InitialFs(chosen, pre) ==
    MakeFs(TemplateTree(chosen)
           \cup {[path |-> q, content |-> <<"old">>] :
                    q \in pre \ {file.path : file \in TemplateTree(chosen)}})

Small(S, n) == {x \in SUBSET S : Cardinality(x) <= n}

----------------------------------------------------------------------------
(* render_template (main.rs:207-525), one action per stage *)

\* the command line `from <template> <destination>` with the flag, if any,
\* that selects the strategy (main.rs:139-150)
FlagsOf(strategy) ==
    [command |-> "from", name |-> <<>>,
     overwrite_conflicts |-> strategy = "Overwrite",
     skip_conflicts |-> strategy = "Skip"]

\* no register or remove has run
NoOp ==
    [op |-> "none", path |-> <<>>, canon_path |-> <<>>, existed |-> FALSE,
     ok |-> FALSE, before |-> <<>>]

NoRun ==
    [ended |-> FALSE, ok |-> FALSE, prompted |-> FALSE, context |-> <<>>,
     planned |-> <<>>, err |-> "none", fs_start |-> <<>>]

InitWith(config, chosen, destination_path, strategy, pre) ==
    /\ fs = InitialFs(chosen, pre)
    /\ args = [template_path |-> TemplateRoot,
               destination_path |-> destination_path,
               conflict_strategy |-> strategy,
               config |-> config]
    /\ pc = "validate"
    /\ run = 1
    /\ validation_errors = <<>>
    /\ early_conflicts = <<>>
    /\ context = <<>>
    /\ actions = <<>>
    /\ conflicts = <<>>
    /\ next_action = 1
    /\ err = "none"
    /\ fs_start = fs
    /\ planned = <<>>
    /\ prev_run = NoRun
    /\ cli = FlagsOf(strategy)
    /\ registry = <<>>
    /\ last_op = NoOp

Init ==
    \E config \in Configs, chosen \in Small(CandidateFiles, MaxFiles),
       destination_path \in DestinationRoots, strategy \in Strategies :
        \E pre \in Small(PreCandidates(chosen, destination_path), MaxPre) :
            InitWith(config, chosen, destination_path, strategy, pre)

\* the runs that vary the questions: one tree, one destination
ManifestTree ==
    {file \in CandidateFiles :
        file.path \in {<<(<<"{{project}}">>), (<<"README", ".md", ".tera">>)>>,
                       <<(<<"README", ".md">>)>>}}

InitManifest ==
    \E config \in AllManifests, strategy \in Strategies :
        \E pre \in Small(PreCandidates(ManifestTree, <<(<<"D">>)>>), 1) :
            InitWith(config, ManifestTree, <<(<<"D">>)>>, strategy, pre)

\* main.rs:223-285
ValidateConfig ==
    /\ pc = "validate"
    /\ validation_errors' = Validate(args.config)
    /\ IF validation_errors' # <<>>
       THEN pc' = "failed" /\ err' = "validation"
       ELSE pc' = "early_check" /\ err' = err
    /\ UNCHANGED <<cli, registry, last_op, fs, args, run, early_conflicts, context, actions, conflicts,
                   next_action, fs_start, planned, prev_run>>

\* main.rs:287-329
EarlyCheck ==
    /\ pc = "early_check"
    /\ early_conflicts' =
          IF args.conflict_strategy = "Fail"
          THEN EarlyConflicts(fs, args.template_path, args.destination_path)
          ELSE <<>>
    /\ IF early_conflicts' # <<>>
       THEN pc' = "failed" /\ err' = "conflict"
       ELSE pc' = "prompt" /\ err' = err
    /\ UNCHANGED <<cli, registry, last_op, fs, args, run, validation_errors, context, actions, conflicts,
                   next_action, fs_start, planned, prev_run>>

\* main.rs:331-413; a repeated invocation is given the answers of the one
\* before it, when that one got any
Prompt ==
    /\ pc = "prompt"
    /\ \E ctx \in Contexts(args.config) :
          /\ prev_run.prompted => ctx = prev_run.context
          /\ context' = ctx
    /\ pc' = "plan"
    /\ UNCHANGED <<cli, registry, last_op, fs, args, run, validation_errors, early_conflicts, actions,
                   conflicts, next_action, err, fs_start, planned, prev_run>>

\* interact()? fails (main.rs:355, 368, 384, 398)
PromptFails ==
    /\ pc = "prompt"
    /\ args.config # <<>>
    /\ pc' = "failed"
    /\ err' = "prompt"
    /\ UNCHANGED <<cli, registry, last_op, fs, args, run, validation_errors, early_conflicts, context,
                   actions, conflicts, next_action, fs_start, planned, prev_run>>

\* main.rs:415-481
PlanActions ==
    /\ pc = "plan"
    /\ IF PlanOk(fs, args.template_path, args.destination_path, context)
       THEN /\ actions' = Plan(fs, args.template_path, args.destination_path, context)
            /\ pc' = "resolve"
            /\ err' = err
       ELSE /\ actions' = actions
            /\ pc' = "failed"
            /\ err' = "render_path"
    /\ planned' = actions'
    /\ UNCHANGED <<cli, registry, last_op, fs, args, run, validation_errors, early_conflicts, context,
                   conflicts, next_action, fs_start, prev_run>>

\* main.rs:483-505
ResolveConflicts ==
    /\ pc = "resolve"
    /\ conflicts' = IF args.conflict_strategy = "Fail"
                    THEN Conflicts(fs, actions) ELSE <<>>
    /\ actions' = Resolved(fs, actions, args.conflict_strategy)
    /\ IF conflicts' # <<>>
       THEN pc' = "failed" /\ err' = "conflict"
       ELSE pc' = "execute" /\ err' = err
    /\ UNCHANGED <<cli, registry, last_op, fs, args, run, validation_errors, early_conflicts, context,
                   next_action, fs_start, planned, prev_run>>

\* an executor that restores the file system when an action fails
ExecuteActionRollback ==
    /\ pc = "execute"
    /\ next_action <= Len(actions)
    /\ IF ExecuteOk(fs, actions[next_action], context)
       THEN /\ fs' = Execute(fs, actions[next_action], context)
            /\ next_action' = next_action + 1 /\ pc' = pc /\ err' = err
       ELSE /\ fs' = fs_start
            /\ next_action' = next_action /\ pc' = "failed" /\ err' = "execute"
    /\ UNCHANGED <<cli, registry, last_op, args, run, validation_errors, early_conflicts, context, actions,
                   conflicts, fs_start, planned, prev_run>>

\* one iteration of main.rs:507-521
ExecuteAction ==
    /\ pc = "execute"
    /\ next_action <= Len(actions)
    /\ fs' = Execute(fs, actions[next_action], context)
    /\ IF ExecuteOk(fs, actions[next_action], context)
       THEN next_action' = next_action + 1 /\ pc' = pc /\ err' = err
       ELSE next_action' = next_action /\ pc' = "failed" /\ err' = "execute"
    /\ UNCHANGED <<cli, registry, last_op, args, run, validation_errors, early_conflicts, context, actions,
                   conflicts, fs_start, planned, prev_run>>

\* main.rs:523-524
Finish ==
    /\ pc = "execute"
    /\ next_action > Len(actions)
    /\ pc' = "ok"
    /\ UNCHANGED <<cli, registry, last_op, fs, args, run, validation_errors, early_conflicts, context,
                   actions, conflicts, next_action, err, fs_start, planned, prev_run>>

\* the same command is given again; fs_start is then the file system the
\* previous invocation left
Rerun ==
    /\ pc \in {"ok", "failed"}
    /\ run < MaxRuns
    /\ run' = run + 1
    /\ pc' = IF args.conflict_strategy = "unset" THEN "main" ELSE "validate"
    /\ validation_errors' = <<>>
    /\ early_conflicts' = <<>>
    /\ context' = <<>>
    /\ actions' = <<>>
    /\ conflicts' = <<>>
    /\ next_action' = 1
    /\ err' = "none"
    /\ fs_start' = fs
    /\ planned' = <<>>
    /\ prev_run' = [ended |-> TRUE,
                    ok |-> pc = "ok",
                    prompted |-> \/ pc = "ok"
                                 \/ err \in {"render_path", "execute"}
                                 \/ err = "conflict" /\ early_conflicts = <<>>,
                    context |-> context,
                    planned |-> planned,
                    err |-> err,
                    fs_start |-> fs_start]
    /\ UNCHANGED <<cli, registry, last_op, fs, args>>

----------------------------------------------------------------------------
(* The command line and main (main.rs:11-58, 118-164) *)

\* clap (main.rs:28-32, 41-45): both flags are in the argument group
\* "conflict_strategy", which admits one of its members
ParseOk(c) == ~(c.overwrite_conflicts /\ c.skip_conflicts)

\* a resolution that does not look at skip_conflicts
ConflictStrategyIgnoringSkip(overwrite_conflicts, skip_conflicts) ==
    IF overwrite_conflicts THEN "Overwrite" ELSE "Fail"

\* main.rs:128-134 and 143-149
ConflictStrategyOf(overwrite_conflicts, skip_conflicts) ==
    IF overwrite_conflicts THEN "Overwrite"
    ELSE IF skip_conflicts THEN "Skip"
    ELSE "Fail"

\* WalkBuilder::max_depth(Some(4))
MaxDepth == 4

\* find_templates (main.rs:646-710): the directories within MaxDepth of a
\* source that hold a stamp.toml, those below an already found template
\* left out; a walk meets a directory before the directories below it
IsTemplateDir(f, dir) == IsDir(f, dir) /\ Exists(f, Append(dir, <<"stamp.toml">>))

WalkedDirs(f, source) ==
    {d \in DOMAIN f \cup {<<>>} :
        IsDir(f, d) /\ StartsWith(d, source) /\ Len(d) - Len(source) <= MaxDepth}

FoundIn(f, source, excluded_paths) ==
    {d \in WalkedDirs(f, source) :
        /\ IsTemplateDir(f, d)
        /\ \A e \in excluded_paths : ~(StartsWith(d, e) /\ d # e)
        /\ \A a \in WalkedDirs(f, source) :
              ~(IsTemplateDir(f, a) /\ StartsWith(d, a) /\ d # a)}

RECURSIVE FindTemplates(_, _)
FindTemplates(f, sources) ==
    IF sources = <<>> THEN {}
    ELSE LET found == FindTemplates(f, Parent(sources))
         IN  found \cup FoundIn(f, sources[Len(sources)], found)

\* main.rs:178-191: the name of the template (its directory's name, the
\* manifests of the model giving no meta.name) or the end of its path
EndsWith(path, suffix) ==
    Len(suffix) <= Len(path)
    /\ SubSeq(path, Len(path) - Len(suffix) + 1, Len(path)) = suffix

Matches(templates, template_name) ==
    {t \in templates :
        FileName(t) = template_name \/ EndsWith(t, Components(template_name))}

\* main (main.rs:118-164) up to the call of render_template, with
\* render_registered_template (main.rs:166-206) for `use`
Main ==
    /\ pc = "main"
    /\ IF ~ParseOk(cli)
       THEN pc' = "rejected" /\ err' = "usage" /\ args' = args
       ELSE LET strategy == ConflictStrategyOf(cli.overwrite_conflicts,
                                               cli.skip_conflicts)
                matches == Matches(FindTemplates(fs, registry), cli.name)
            IN  IF cli.command = "from"
                THEN /\ args' = [args EXCEPT !.conflict_strategy = strategy]
                     /\ pc' = "validate" /\ err' = err
                ELSE IF Cardinality(matches) = 1
                THEN /\ args' = [args EXCEPT
                                    !.template_path = CHOOSE t \in matches : TRUE,
                                    !.conflict_strategy = strategy]
                     /\ pc' = "validate" /\ err' = err
                ELSE pc' = "failed" /\ err' = "template" /\ args' = args
    /\ UNCHANGED <<fs, run, validation_errors, early_conflicts, context, actions,
                   conflicts, next_action, fs_start, planned, prev_run, cli,
                   registry, last_op>>

\* the command lines: `from T D` and `use <name> D`, each with any of the
\* two flags
CommandLines ==
    {[command |-> c, name |-> n, overwrite_conflicts |-> o, skip_conflicts |-> k] :
        c \in {"from", "use"}, n \in {<<"T">>, <<"nope">>}, o \in BOOLEAN,
        k \in BOOLEAN}

\* the registries of the command-line runs: empty, or the root directory
Registries == {<<>>, <<(<<>>)>>}

Next ==
    \/ ValidateConfig
    \/ EarlyCheck
    \/ Prompt
    \/ PromptFails
    \/ PlanActions
    \/ ResolveConflicts
    \/ ExecuteAction
    \/ Finish
    \/ Rerun

Spec == Init /\ [][Next]_vars

SpecManifest == InitManifest /\ [][Next]_vars

\* the runs that vary the command line: one tree, one manifest, one
\* destination; the strategy is not known before main has run
InitCli ==
    \E c \in CommandLines, sources \in Registries,
       pre \in Small(PreCandidates(ManifestTree, <<(<<"D">>)>>), 1) :
        /\ c.command = "from" => c.name = <<"T">>
        /\ fs = InitialFs(ManifestTree, pre)
        /\ args = [template_path |-> IF c.command = "from" THEN TemplateRoot ELSE <<>>,
                   destination_path |-> <<(<<"D">>)>>,
                   conflict_strategy |-> "unset",
                   config |-> <<StringQuestion("project"), StringQuestion("name")>>]
        /\ pc = "main"
        /\ run = 1
        /\ validation_errors = <<>>
        /\ early_conflicts = <<>>
        /\ context = <<>>
        /\ actions = <<>>
        /\ conflicts = <<>>
        /\ next_action = 1
        /\ err = "none"
        /\ fs_start = fs
        /\ planned = <<>>
        /\ prev_run = NoRun
        /\ cli = c
        /\ registry = sources
        /\ last_op = NoOp

NextCli == Main \/ Next

----------------------------------------------------------------------------
(* The registry (main.rs:106-109, 527-551, 583-638).  One invocation of the *)
(* program loads template_registry.json, changes the list and saves it; an  *)
(* invocation runs to its end before the next one starts.                   *)

\* fs::canonicalize: the path must exist; without symbolic links the
\* canonical path is the path with its ".." resolved
CanonicalizeOk(f, path) == Exists(f, path)
Canonicalize(f, path) == Normalize(path)

\* Vec::contains
Contains(sources, path) == \E i \in 1..Len(sources) : sources[i] = path

\* Iterator::position: the first index that holds the path
Position(sources, path) ==
    CHOOSE i \in 1..Len(sources) :
        sources[i] = path /\ \A j \in 1..(i - 1) : sources[j] # path

\* Vec::remove
RemoveAt(sources, index) ==
    SubSeq(sources, 1, index - 1) \o SubSeq(sources, index + 1, Len(sources))

\* a registration that does not look for the path in the list
PushAlways(sources, canon_path) == Append(sources, canon_path)

\* main.rs:536-548: the list register_source leaves for a directory
PushIfAbsent(sources, canon_path) ==
    IF Contains(sources, canon_path) THEN sources ELSE Append(sources, canon_path)

\* the directories and the file of the runs that vary the registry
RegistryDirs == {<<(<<"T">>)>>, <<(<<"S">>)>>, <<(<<"D">>)>>}

RegistryFs ==
    MakeFs({[path |-> <<(<<"T">>), (<<"stamp.toml">>)>>, content |-> <<"[questions]">>],
            [path |-> <<(<<"S">>), (<<"app">>), (<<"stamp.toml">>)>>,
             content |-> <<"[questions]">>],
            [path |-> <<(<<"D">>), (<<"README", ".md">>)>>, content |-> <<"old">>]})

\* what `register <path>` and `remove <path>` may be given: the
\* directories, another spelling of one of them, a file, a missing path
RegistryPaths ==
    RegistryDirs
    \cup {<<(<<"S">>), (<<"..">>), (<<"T">>)>>,
          <<(<<"D">>), (<<"README", ".md">>)>>,
          <<(<<"nope">>)>>}

InitRegistry ==
    /\ fs = RegistryFs
    /\ args = [template_path |-> TemplateRoot,
               destination_path |-> <<(<<"D">>)>>,
               conflict_strategy |-> "unset",
               config |-> <<>>]
    /\ pc = "registry"
    /\ run = 1
    /\ validation_errors = <<>>
    /\ early_conflicts = <<>>
    /\ context = <<>>
    /\ actions = <<>>
    /\ conflicts = <<>>
    /\ next_action = 1
    /\ err = "none"
    /\ fs_start = fs
    /\ planned = <<>>
    /\ prev_run = NoRun
    /\ cli = [command |-> "register", name |-> <<>>,
              overwrite_conflicts |-> FALSE, skip_conflicts |-> FALSE]
    /\ registry = <<>>
    /\ last_op = NoOp

\* register_source (main.rs:527-551)
RegisterSource ==
    /\ pc = "registry"
    /\ \E path \in RegistryPaths :
          LET canon_path == Canonicalize(fs, path)
              accepted == CanonicalizeOk(fs, path) /\ IsDir(fs, canon_path)
          IN  /\ registry' = IF accepted THEN PushIfAbsent(registry, canon_path)
                             ELSE registry
              /\ last_op' = [op |-> "register", path |-> path,
                             canon_path |-> canon_path,
                             existed |-> Exists(fs, path), ok |-> accepted,
                             before |-> registry]
    /\ cli' = [cli EXCEPT !.command = "register"]
    /\ UNCHANGED <<fs, args, pc, run, validation_errors, early_conflicts, context,
                   actions, conflicts, next_action, err, fs_start, planned,
                   prev_run>>

\* remove_source (main.rs:615-638)
RemoveSource ==
    /\ pc = "registry"
    /\ \E path \in RegistryPaths :
          LET canon_path == IF Exists(fs, path) THEN Canonicalize(fs, path) ELSE path
              found == Contains(registry, canon_path)
          IN  /\ registry' = IF found
                             THEN RemoveAt(registry, Position(registry, canon_path))
                             ELSE registry
              /\ last_op' = [op |-> "remove", path |-> path,
                             canon_path |-> canon_path,
                             existed |-> Exists(fs, path), ok |-> found,
                             before |-> registry]
    /\ cli' = [cli EXCEPT !.command = "remove"]
    /\ UNCHANGED <<fs, args, pc, run, validation_errors, early_conflicts, context,
                   actions, conflicts, next_action, err, fs_start, planned,
                   prev_run>>

\* between two invocations a registered directory is deleted from the disk,
\* which decides the branch of main.rs:617-621
DeleteDir ==
    /\ pc = "registry"
    /\ \E dir \in RegistryDirs :
          /\ IsDir(fs, dir)
          /\ dir \in DOMAIN fs
          /\ fs' = [q \in {r \in DOMAIN fs : ~StartsWith(r, dir)} |-> fs[q]]
    /\ UNCHANGED <<args, pc, run, validation_errors, early_conflicts, context,
                   actions, conflicts, next_action, err, fs_start, planned,
                   prev_run, cli, registry, last_op>>

NextRegistry == RegisterSource \/ RemoveSource \/ DeleteDir

SpecRegistry == InitRegistry /\ [][NextRegistry]_vars

SpecCli == InitCli /\ [][NextCli]_vars

----------------------------------------------------------------------------
(* The claims *)

Range(seq) == {seq[i] : i \in 1..Len(seq)}

\* the regular files below a directory
FilesUnder(f, dir) ==
    {p \in DOMAIN f : IsFile(f, p) /\ StartsWith(p, dir) /\ p # dir}

\* C1: under the Fail strategy, when some final planned destination exists
\* as the run starts, the run goes no further than conflict resolution, ends
\* with the conflict error, and the file system is the one the run started
\* with; the same holds when the early check ends the run
C1_FailWritesNothing ==
    /\ (args.conflict_strategy = "Fail"
        /\ \E i \in 1..Len(planned) : Exists(fs_start, planned[i].destination))
       => /\ pc \in {"resolve", "failed"}
          /\ pc = "failed" => err = "conflict"
          /\ fs = fs_start
    /\ (args.conflict_strategy = "Fail" /\ err = "conflict") => fs = fs_start

\* C1: a run under Fail that planned a parametrized destination which exists
\* has ended with the conflict error
C1_Witness ==
    /\ args.conflict_strategy = "Fail"
    /\ pc = "failed"
    /\ err = "conflict"
    /\ \E i \in 1..Len(planned) :
          /\ IsParametrized(planned[i].source)
          /\ Exists(fs_start, planned[i].destination)
          /\ planned[i].destination \in Range(conflicts)

\* the paths the early check can report: the files of the template tree other
\* than those named stamp.toml whose relative path holds no "{{", joined to
\* the destination as given, the marker taken out of the name
EarlyPaths(f) ==
    {EarlyOutputPath(p, args.template_path, args.destination_path) :
        p \in {q \in FilesUnder(f, args.template_path) :
                  /\ FileName(q) # <<"stamp.toml">>
                  /\ ~IsParametrized(StripPrefix(q, args.template_path))}}

\* the paths printed under "Conflicting files found:"
Reported == IF early_conflicts # <<>> THEN early_conflicts ELSE conflicts

\* the answers the run got, or, when it ended before asking, those it could
\* have got
PossibleContexts ==
    IF planned # <<>> \/ pc \in {"resolve", "execute", "ok"}
    THEN {context} ELSE Contexts(args.config)

RECURSIVE ExecuteAll(_, _, _)
ExecuteAll(f, acts, ctx) ==
    IF acts = <<>> THEN [fs |-> f, ok |-> TRUE]
    ELSE IF ExecuteOk(f, Head(acts), ctx)
         THEN ExecuteAll(Execute(f, Head(acts), ctx), Tail(acts), ctx)
         ELSE [fs |-> Execute(f, Head(acts), ctx), ok |-> FALSE]

\* the plan was computed in this run
Planned ==
    \/ pc \in {"resolve", "execute", "ok"}
    \/ pc = "failed" /\ err = "execute"
    \/ pc = "failed" /\ err = "conflict" /\ early_conflicts = <<>>

\* C3 as claimed: after a successful run under Skip every planned
\* destination that existed before the run holds what it held, and every
\* planned destination that did not exist holds what a run under Overwrite
\* from the same state leaves there
C3_SkipPartialCompletion ==
    (args.conflict_strategy = "Skip" /\ pc = "ok")
    => \A i \in 1..Len(planned) :
          LET d == Normalize(planned[i].destination)
              over == ExecuteAll(fs_start, planned, context)
          IN  /\ Exists(fs_start, planned[i].destination)
                 => d \in DOMAIN fs /\ fs[d] = fs_start[d]
              /\ (~Exists(fs_start, planned[i].destination) /\ over.ok)
                 => d \in DOMAIN fs /\ fs[d] = over.fs[d]

\* the part of a file system below the destination root
DestinationTree(f) ==
    [q \in {r \in DOMAIN f : StartsWith(r, Normalize(args.destination_path))} |-> f[q]]

\* a second successful run under Overwrite, after a successful first one
\* that was given the same answers
SecondOverwrite ==
    /\ run = 2
    /\ pc = "ok"
    /\ args.conflict_strategy = "Overwrite"
    /\ prev_run.ok
    /\ context = prev_run.context

\* C4 as claimed: the second run leaves the destination tree as the first
\* run left it, wherever the destination root lies
C4_Original ==
    SecondOverwrite => DestinationTree(fs) = DestinationTree(fs_start)

\* no destination the first run planned lies in the template tree
WritesOutsideTemplate ==
    \A i \in 1..Len(prev_run.planned) :
        ~StartsWith(Normalize(prev_run.planned[i].destination), args.template_path)

\* C4 as amended: when the first run wrote nothing into the template tree,
\* the second run plans what the first planned and leaves every file and
\* directory as the first run left it
C4_IdempotentOutsideTemplate ==
    (SecondOverwrite /\ WritesOutsideTemplate)
    => /\ planned = prev_run.planned
       /\ fs = fs_start

\* C4: a second run under Overwrite has rewritten two files outside the
\* template tree
C4_Witness ==
    /\ SecondOverwrite
    /\ WritesOutsideTemplate
    /\ Len(actions) = 2
    /\ next_action = 3
    /\ \A i \in 1..2 : IsFile(fs, Normalize(actions[i].destination))

\* no planned destination exists and the destination root holds no file
EmptyDestination ==
    /\ \A q \in DOMAIN fs_start :
          StartsWith(q, Normalize(args.destination_path)) => IsDir(fs_start, q)
    /\ \A i \in 1..Len(planned) : ~Exists(fs_start, planned[i].destination)

\* what an action is to put at its destination
Expected(action) ==
    IF action.is_tera
    THEN RenderStr(fs_start[action.source].content, context)
    ELSE fs_start[action.source].content

\* C5 as claimed: after a successful first run into an empty destination the
\* destination of every planned action holds the rendering of its source
\* when the source is marked and the bytes of its source when it is not
C5_Original ==
    (run = 1 /\ pc = "ok" /\ EmptyDestination)
    => \A i \in 1..Len(planned) :
          /\ IsFile(fs, Normalize(planned[i].destination))
          /\ fs[Normalize(planned[i].destination)].content = Expected(planned[i])

\* C5 as amended: the same, for the actions whose destination no later
\* action writes and whose source no earlier action has written
C5_LastWriterContent ==
    (run = 1 /\ pc = "ok" /\ EmptyDestination)
    => \A i \in 1..Len(planned) :
          (/\ \A j \in (i + 1)..Len(planned) :
                 Normalize(planned[j].destination) # Normalize(planned[i].destination)
           /\ \A j \in 1..(i - 1) :
                 Normalize(planned[j].destination) # planned[i].source)
          => /\ IsFile(fs, Normalize(planned[i].destination))
             /\ fs[Normalize(planned[i].destination)].content = Expected(planned[i])

\* C5: the scenario of the specification: {{project}}/README.md.tera holding
\* "Hello {{name}}" has become demo/README.md holding "Hello Ada"
C5_Witness ==
    /\ run = 1 /\ pc = "ok" /\ EmptyDestination
    /\ args.destination_path = <<(<<"D">>)>>
    /\ context = TypicalContext
    /\ \E i \in 1..Len(planned) :
          /\ planned[i].source =
                TemplateRoot \o <<(<<"{{project}}">>), (<<"README", ".md", ".tera">>)>>
          /\ planned[i].is_tera
    /\ IsFile(fs, <<(<<"D">>), (<<"demo">>), (<<"README", ".md">>)>>)
    /\ fs[<<(<<"D">>), (<<"demo">>), (<<"README", ".md">>)>>].content = <<"Hello ", "Ada">>

\* the name with its marker removed once: the final ".tera", or else the
\* first ".tera" that another extension follows
StripMarker(file_name) ==
    IF Len(file_name) > 0 /\ file_name[Len(file_name)] = ".tera"
    THEN SubSeq(file_name, 1, Len(file_name) - 1)
    ELSE LET i == CHOOSE k \in 1..(Len(file_name) - 1) :
                     /\ file_name[k] = ".tera" /\ file_name[k + 1] \in DotTokens
                     /\ \A m \in 1..(k - 1) :
                           ~(file_name[m] = ".tera" /\ file_name[m + 1] \in DotTokens)
         IN  SubSeq(file_name, 1, i - 1) \o SubSeq(file_name, i + 1, Len(file_name))

\* C6 as claimed: a planned file is marked iff its name ends with ".tera" or
\* contains ".tera."; the destination name of a marked file is its rendered
\* name with the marker removed once, that of an unmarked file its rendered
\* name
C6_MarkerRemovedOnce ==
    Planned
    => \A i \in 1..Len(planned) :
          LET name == FileName(planned[i].source)
              rendered == RenderStr(name, context)
          IN  /\ planned[i].is_tera = IsTera(name)
              /\ FileName(planned[i].destination) =
                    IF IsTera(name) THEN StripMarker(rendered) ELSE rendered

\* C7 as claimed: every planned destination lies under the destination root
\* the caller gave, as written and once ".." is resolved
C7_UnderDestinationRoot ==
    Planned
    => \A i \in 1..Len(planned) :
          /\ StartsWith(planned[i].destination, args.destination_path)
          /\ StartsWith(Normalize(planned[i].destination),
                        Normalize(args.destination_path))

\* the rules of section 4.1 a question violates, one per condition
Violated(question) ==
    {rule \in {"both", "select without options", "select with choices",
               "multi-select without choices", "multi-select with options",
               "plain with options", "plain with choices"} :
        CASE rule = "both" -> question.options.some /\ question.choices.some
          [] rule = "select without options" ->
                question.kind = "Select" /\ ~question.options.some
          [] rule = "select with choices" ->
                question.kind = "Select" /\ question.choices.some
          [] rule = "multi-select without choices" ->
                question.kind = "MultiSelect" /\ ~question.choices.some
          [] rule = "multi-select with options" ->
                question.kind = "MultiSelect" /\ question.options.some
          [] rule = "plain with options" ->
                question.kind \in {"String", "Bool"} /\ question.options.some
          [] rule = "plain with choices" ->
                question.kind \in {"String", "Bool"} /\ question.choices.some}

WellFormed(question) ==
    /\ question.options.some <=> question.kind = "Select"
    /\ question.choices.some <=> question.kind = "MultiSelect"

\* C8: once validation has run, the manifest is rejected iff some question
\* is not well formed; every question has one message per condition of
\* section 4.1 it violates, whatever the questions before it violate; and a
\* rejected run has asked nothing, planned nothing and written nothing
C8_ValidationBatch ==
    pc # "validate"
    => /\ err = "validation"
          <=> \E i \in 1..Len(args.config) : ~WellFormed(args.config[i])
       /\ \A i \in 1..Len(args.config) :
             Cardinality({k \in 1..Len(validation_errors) :
                             validation_errors[k].id = args.config[i].id})
             = Cardinality(Violated(args.config[i]))
       /\ \A k \in 1..Len(validation_errors) :
             \E i \in 1..Len(args.config) :
                validation_errors[k].id = args.config[i].id
       /\ err = "validation"
          => /\ pc = "failed"
             /\ validation_errors # <<>>
             /\ context = <<>> /\ planned = <<>> /\ actions = <<>>
             /\ early_conflicts = <<>> /\ conflicts = <<>>
             /\ fs = fs_start

\* C8: a manifest of two questions, the first violating three conditions
\* and the second one, has been rejected with four messages
C8_Witness ==
    /\ pc = "failed"
    /\ err = "validation"
    /\ Len(args.config) = 2
    /\ Cardinality(Violated(args.config[1])) = 3
    /\ Cardinality(Violated(args.config[2])) = 1
    /\ Len(validation_errors) = 4

\* C9 as claimed: the plan holds one action for every regular file under
\* the template root other than the manifest at the root, and no other
C9_OneActionPerFile ==
    Planned
    => /\ Range([i \in 1..Len(planned) |-> planned[i].source])
          = FilesUnder(fs_start, args.template_path)
            \ {args.template_path \o <<(<<"stamp.toml">>)>>}
       /\ \A i, j \in 1..Len(planned) :
             planned[i].source = planned[j].source => i = j

\* C10: when executing the k-th action fails, the run has ended with the
\* error, the k-th action is the one in turn, every action before it
\* succeeded, each destination written before it holds what the last of
\* those writes put there, and beyond those writes only the directories the
\* k-th action could create have been added
C10_NoRollback ==
    (pc = "failed" /\ err = "execute")
    => /\ next_action \in 1..Len(actions)
       /\ LET k == next_action
              before == ExecuteAll(fs_start, SubSeq(actions, 1, k - 1), context)
          IN  /\ before.ok
              /\ ~ExecuteOk(before.fs, actions[k], context)
              /\ \A j \in 1..(k - 1) :
                    LET d == Normalize(actions[j].destination)
                        last == CHOOSE m \in j..(k - 1) :
                                   /\ Normalize(actions[m].destination) = d
                                   /\ \A n \in (m + 1)..(k - 1) :
                                         Normalize(actions[n].destination) # d
                    IN  /\ IsFile(fs, d)
                        /\ fs[d] = ExecuteAll(fs_start, SubSeq(actions, 1, last),
                                              context).fs[d]
              /\ \A q \in DOMAIN fs :
                    (q \notin DOMAIN before.fs \/ fs[q] # before.fs[q])
                    => /\ q \notin DOMAIN before.fs
                       /\ IsDir(fs, q)
                       /\ q \in DirChain(Parent(actions[k].destination),
                                         Len(Parent(actions[k].destination)))
              /\ DOMAIN before.fs \subseteq DOMAIN fs

\* C10: the second action has failed and the file the first wrote is there
C10_Witness ==
    /\ pc = "failed"
    /\ err = "execute"
    /\ next_action = 2
    /\ fs # fs_start
    /\ IsFile(fs, Normalize(actions[1].destination))
    /\ ~IsFile(fs_start, Normalize(actions[1].destination))

\* the strategy the flags ask for
StrategyOfFlags ==
    CASE cli.overwrite_conflicts /\ ~cli.skip_conflicts -> "Overwrite"
      [] cli.skip_conflicts /\ ~cli.overwrite_conflicts -> "Skip"
      [] ~cli.overwrite_conflicts /\ ~cli.skip_conflicts -> "Fail"
      [] OTHER -> "none"

\* the run went past conflict resolution
PastResolution ==
    pc \in {"execute", "ok"} \/ (pc = "failed" /\ err = "execute")

\* C11: once main has run, for use and for from alike: a command line with
\* both flags has been rejected before anything was done and no other has;
\* every run that reached render_template has the strategy its flag asks
\* for (Overwrite, Skip, or Fail for neither); that strategy has been
\* applied to every planned action (all kept under Overwrite and Fail, none
\* existing under Fail, exactly those not existing kept under Skip); and
\* no step of the run changes the strategy
C11_StrategyOfFlags ==
    /\ [](pc # "main"
          => /\ pc = "rejected" <=> (cli.overwrite_conflicts /\ cli.skip_conflicts)
             /\ pc = "rejected"
                => /\ fs = fs_start /\ context = <<>> /\ planned = <<>>
                   /\ args.conflict_strategy = "unset"
             /\ (pc # "rejected" /\ err # "template")
                => /\ args.conflict_strategy = StrategyOfFlags
                   /\ args.conflict_strategy \in Strategies
             /\ PastResolution
                => actions =
                      CASE StrategyOfFlags = "Overwrite" -> planned
                        [] StrategyOfFlags = "Skip" ->
                              SelectSeq(planned,
                                  LAMBDA a : ~Exists(fs_start, a.destination))
                        [] StrategyOfFlags = "Fail" ->
                              IF \E i \in 1..Len(planned) :
                                    Exists(fs_start, planned[i].destination)
                              THEN <<>> ELSE planned)
    /\ [][pc # "main" => args'.conflict_strategy = args.conflict_strategy]_vars

\* C11: `use T D --skip-conflicts` has found the template through the
\* registry, run under Skip, dropped a planned action and ended well
C11_Witness ==
    /\ cli.command = "use"
    /\ cli.skip_conflicts
    /\ pc = "ok"
    /\ args.conflict_strategy = "Skip"
    /\ args.template_path = TemplateRoot
    /\ Len(planned) = 2
    /\ Len(actions) = 1

\* the part of a file system at and below the template root
TemplateTreeOf(f) ==
    [q \in {r \in DOMAIN f : StartsWith(r, args.template_path)} |-> f[q]]

\* the planning step of this run is over, with a plan or with a path that
\* did not render
PlanningDone == Planned \/ (pc = "failed" /\ err = "render_path")

\* the planning step of the previous run was reached
PlanningDoneBefore == prev_run.ended /\ prev_run.prompted

C13_Original ==
    Planned
    => \A i, j \in 1..Len(planned) :
          i # j => planned[i].destination # planned[j].destination

\* C13 as amended: a plan holds every source once, and two of its actions
\* have the same destination only if one of them is marked or has a
\* parametrized path; a run that ends well has executed each action that
\* conflict resolution kept once and in order, so a destination that
\* several actions share holds what the last of them wrote
C13_SharedDestinationLastWins ==
    /\ Planned
       => \A i, j \in 1..Len(planned) :
             i # j
             => /\ planned[i].source # planned[j].source
                /\ planned[i].destination = planned[j].destination
                   => \E k \in {i, j} :
                         \/ planned[k].is_tera
                         \/ IsParametrized(StripPrefix(planned[k].source,
                                                       args.template_path))
    /\ pc = "ok"
       => /\ next_action = Len(actions) + 1
          /\ ExecuteAll(fs_start, actions, context).ok
          /\ fs = ExecuteAll(fs_start, actions, context).fs
          /\ \A i \in 1..Len(actions) :
                (/\ \A j \in (i + 1)..Len(actions) :
                       Normalize(actions[j].destination)
                       # Normalize(actions[i].destination)
                 /\ \A j \in 1..(i - 1) :
                       Normalize(actions[j].destination) # actions[i].source)
                => /\ IsFile(fs, Normalize(actions[i].destination))
                   /\ fs[Normalize(actions[i].destination)].content
                      = Expected(actions[i])

\* C13: two executed actions had the same destination, and it holds what
\* the second wrote, not what the first wrote
C13_Witness ==
    /\ pc = "ok"
    /\ Len(actions) = 2
    /\ actions[1].destination = actions[2].destination
    /\ actions[1].source # actions[2].source
    /\ fs[Normalize(actions[2].destination)].content = Expected(actions[2])
    /\ Expected(actions[1]) # Expected(actions[2])

\* C14: from an empty registry, after any registrations and removals, the
\* stored list holds no path twice; a registration of a directory that was
\* registered, a registration that fails and a removal that fails leave the
\* list as it was; a registration of a new directory adds it at the end;
\* a removal fails exactly when the path is not in the list; and after a
\* removal that succeeded the path, as given and as canonicalized, is not
\* in the list, the rest of the list being as it was
C14_RegistryInvariant ==
    /\ \A i, j \in 1..Len(registry) : registry[i] = registry[j] => i = j
    /\ last_op.op = "register"
       => /\ (last_op.ok /\ last_op.canon_path \in Range(last_op.before))
             => registry = last_op.before
          /\ ~last_op.ok => registry = last_op.before
          /\ (last_op.ok /\ last_op.canon_path \notin Range(last_op.before))
             => registry = Append(last_op.before, last_op.canon_path)
    /\ last_op.op = "remove"
       => /\ last_op.ok <=> last_op.canon_path \in Range(last_op.before)
          /\ ~last_op.ok => registry = last_op.before
          /\ last_op.ok
             => /\ last_op.canon_path \notin Range(registry)
                /\ last_op.path \notin Range(registry)
                /\ Range(registry) = Range(last_op.before) \ {last_op.canon_path}
                /\ Len(registry) = Len(last_op.before) - 1

\* C14: a registered directory that is no longer on the disk has been
\* removed from a registry of two
C14_Witness ==
    /\ last_op.op = "remove"
    /\ last_op.ok
    /\ ~last_op.existed
    /\ Len(last_op.before) = 2
    /\ Len(registry) = 1

=============================================================================
